---------------------------- MODULE Spec2Model ----------------------------
(***************************************************************************)
(* Live-tracking screen (src/src/pages/LiveMap.tsx) and the token-gated    *)
(* map widget it hosts (src/src/components/Map.tsx).                       *)
(*                                                                         *)
(* React runs one handler, timer callback or effect at a time; each is an  *)
(* action here.  A state update made by a handler re-renders the tree, and *)
(* the effects whose dependencies changed run before the next event is     *)
(* handled.  The map widget's location effect (Map.tsx:81-85) is folded    *)
(* into the action that caused the re-render; the widget's initialisation  *)
(* effect (Map.tsx:27-78) is the separate step RunInitEffect, so that the  *)
(* render between the submit and the construction of the surface is a      *)
(* state of the model.  While that effect is pending no other action runs. *)
(*                                                                         *)
(* Coordinates are integers in micro-degrees.  Math.random() is drawn from *)
(* the quarters 0, 1/4, 2/4, 3/4, so an offset (r - 0.5) * 0.001 degrees   *)
(* is one of -500, -250, 0, 250 micro-degrees.                             *)
(* Strings the user types are sequences of one-character strings.          *)
(***************************************************************************)
EXTENDS Integers, Sequences, FiniteSets, TLC

VARIABLES
    \* ---- LiveMap.tsx
    mounted,            \* the screen (and the widget inside it) is mounted
    locationState,      \* location.state || {} : [mode, supporterId]
    supporterLocation,  \* useState, line 14
    estimatedTime,      \* useState, line 16
    status,             \* useState, line 17
    intervalArmed,      \* the setInterval handle of line 21 is live
    timerArmed,         \* the setTimeout handle of line 31 is pending
    toasts,             \* calls of toast(), counted by title
    navCalls,           \* calls of navigate(), in order
    \* ---- Map.tsx
    mapboxToken,        \* useState, line 21
    tokenInput,         \* useState, line 22
    mapError,           \* useState, line 23
    isMapReady,         \* useState, line 24
    effectPending,      \* the effect of line 27 is scheduled
    hasCleanup,         \* its last run returned the cleanup of line 73
    maps,               \* every mapboxgl.Map constructed, in order
    mapRef,             \* map.current: index into maps, 0 = null
    markers,            \* every mapboxgl.Marker constructed, in order
    userMarker,         \* userMarker.current: index into markers, 0 = null
    supporterMarker     \* supporterMarker.current

screenVars == <<mounted, locationState, supporterLocation, estimatedTime, status,
                intervalArmed, timerArmed, toasts, navCalls>>
mapVars == <<mapboxToken, tokenInput, mapError, isMapReady, effectPending,
             hasCleanup, maps, mapRef, markers, userMarker, supporterMarker>>
vars == <<screenVars, mapVars>>

---------------------------------------------------------------------------
\* Bounds of the model

\* The supporter stays within MaxDrift jitter steps of the start on each axis.
MaxDrift == 1
\* Call and message clicks counted per kind.
MaxToasts == 1
\* Back clicks counted.
MaxBack == 1
\* Map surfaces constructed in one lifetime of the widget.
MaxMaps == 2

---------------------------------------------------------------------------
\* Program constants

BaseLat == 12971600
BaseLng == 77594600
InitialEta == 15
JitterUnit == 250
RandomQuarters == 0..3

Modes == {"requester", "supporter", "undefined"}
SupporterIds == {"sup-1", "undefined"}

userLocation == [lat |-> BaseLat, lng |-> BaseLng]

Whitespace == {" "}
TokenInputs == {<< >>, <<" ">>, <<" ", "a", " ">>, <<"b">>}

LoadFailed == "Map failed to load. Please check your API key and internet connection."
InitFailed == "Failed to initialize map. Please check your Mapbox token."

---------------------------------------------------------------------------
\* Pure helpers

Max(a, b) == IF a >= b THEN a ELSE b
Min(a, b) == IF a <= b THEN a ELSE b
Abs(a) == IF a >= 0 THEN a ELSE -a

\* (Math.random() - 0.5) * 0.001, in micro-degrees
JitterOffset(q) == (q - 2) * JitterUnit

InBox(loc) ==
    /\ Abs(loc.lat - BaseLat) <= MaxDrift * JitterUnit
    /\ Abs(loc.lng - BaseLng) <= MaxDrift * JitterUnit

\* prev => ({ lat: prev.lat + ..., lng: prev.lng + ... })
Perturb(prev, qLat, qLng) ==
    [lat |-> prev.lat + JitterOffset(qLat), lng |-> prev.lng + JitterOffset(qLng)]

DecrementEta_NoClamp(prev) == prev - 1
\* prev => Math.max(0, prev - 1)
DecrementEta(prev) == Max(0, prev - 1)

RECURSIVE TrimStart(_)
TrimStart(s) ==
    IF s = << >> THEN s
    ELSE IF Head(s) \in Whitespace THEN TrimStart(Tail(s)) ELSE s

RECURSIVE TrimEnd(_)
TrimEnd(s) ==
    IF s = << >> THEN s
    ELSE IF s[Len(s)] \in Whitespace THEN TrimEnd(SubSeq(s, 1, Len(s) - 1)) ELSE s

\* String.prototype.trim
Trim(s) == TrimEnd(TrimStart(s))

\* new LngLatBounds(); bounds.extend(p): the smallest box holding the points so far
EmptyBounds == << >>
Extend(bounds, p) ==
    IF bounds = << >>
    THEN <<[sw |-> [lng |-> p.lng, lat |-> p.lat], ne |-> [lng |-> p.lng, lat |-> p.lat]]>>
    ELSE <<[sw |-> [lng |-> Min(bounds[1].sw.lng, p.lng), lat |-> Min(bounds[1].sw.lat, p.lat)],
            ne |-> [lng |-> Max(bounds[1].ne.lng, p.lng), lat |-> Max(bounds[1].ne.lat, p.lat)]]>>


---------------------------------------------------------------------------
\* Map.tsx: markers and viewport

\* A marker is [kind, map, removed, lnglat] and a surface is [loaded, removed,
\* closure, bounds]; lnglat, closure and bounds hold at most one value.
\* A removed marker or surface shows nothing: it keeps no position or viewport,
\* and calls on it are not recorded.  The closure of a surface's load handlers
\* is dropped once they have run.

\* marker.setLngLat([lng, lat]) through a ref that may be null
SetLngLat(mk, ref, loc) ==
    IF ref = 0 \/ mk[ref].removed THEN mk ELSE [mk EXCEPT ![ref].lnglat = <<loc>>]

\* bounds.extend(user); bounds.extend(supporter); map.current.fitBounds(bounds, ...)
FitBounds(mp, ref, loc) ==
    IF ref = 0 \/ mp[ref].removed THEN mp
    ELSE [mp EXCEPT ![ref].bounds = Extend(Extend(EmptyBounds, userLocation), loc)]

UpdateMarkers_MovesUser(mk, uRef, sRef, loc) == SetLngLat(SetLngLat(mk, sRef, loc), uRef, loc)
\* updateMarkers, the marker half (lines 112-114)
UpdateMarkers(mk, uRef, sRef, loc) == SetLngLat(mk, sRef, loc)

\* The effect of lines 81-85, run after a render in which supporterLocation or
\* isMapReady changed: what it leaves in markers and in maps.
EffectMarkers(ready, ref, mk, uRef, sRef, loc) ==
    IF ready /\ ref # 0 THEN UpdateMarkers(mk, uRef, sRef, loc) ELSE mk
EffectMaps(ready, ref, mp, loc) ==
    IF ready /\ ref # 0 THEN FitBounds(mp, ref, loc) ELSE mp

\* marker.remove() through a ref that may be null
RemoveMarker(mk, ref) ==
    IF ref = 0 THEN mk ELSE [mk EXCEPT ![ref].removed = TRUE, ![ref].lnglat = << >>]

\* map.remove() through a ref that may be null
RemoveMap(mp, ref) ==
    IF ref = 0 THEN mp
    ELSE [mp EXCEPT ![ref].removed = TRUE, ![ref].closure = << >>,
                    ![ref].bounds = EmptyBounds]

CleanupMarkers_Forgotten(mk) == mk
\* the cleanup of lines 73-77, the marker half
CleanupMarkers(mk) == RemoveMarker(RemoveMarker(mk, userMarker), supporterMarker)
\* the cleanup of lines 73-77, the surface half
CleanupMaps(mp) == RemoveMap(mp, mapRef)

\* What is rendered (lines 136, 173, 199): the map container exists only in the
\* third branch, so mapContainer.current is non-null only there.
PromptRendered == mapboxToken = << >>
ErrorRendered == mapboxToken # << >> /\ mapError # ""
ContainerRendered == mapboxToken # << >> /\ mapError = ""

---------------------------------------------------------------------------
\* LiveMap.tsx

Init ==
    /\ mounted = TRUE
    /\ locationState \in [mode : Modes, supporterId : SupporterIds]
    /\ supporterLocation = [lat |-> BaseLat, lng |-> BaseLng]
    /\ estimatedTime = InitialEta
    /\ status = "on_way"
    /\ intervalArmed = TRUE
    /\ timerArmed = TRUE
    /\ toasts = [k \in {"Supporter Arrived!", "Calling Supporter", "Message Sent"} |-> 0]
    /\ navCalls = << >>
    /\ mapboxToken = << >>
    /\ tokenInput = << >>
    /\ mapError = ""
    /\ isMapReady = FALSE
    /\ effectPending = FALSE
    /\ hasCleanup = FALSE
    /\ maps = << >>
    /\ mapRef = 0
    /\ markers = << >>
    /\ userMarker = 0
    /\ supporterMarker = 0

Toast(title) == toasts' = [toasts EXCEPT ![title] = @ + 1]

\* The setInterval callback of lines 21-28, then the widget's location effect.
Jitter ==
    /\ intervalArmed
    /\ ~effectPending
    /\ \E qLat \in RandomQuarters, qLng \in RandomQuarters :
         LET next == Perturb(supporterLocation, qLat, qLng) IN
         /\ InBox(next)
         /\ supporterLocation' = next
         /\ markers' = EffectMarkers(mounted /\ isMapReady, mapRef, markers,
                                     userMarker, supporterMarker, next)
         /\ maps' = EffectMaps(mounted /\ isMapReady, mapRef, maps, next)
    /\ estimatedTime' = DecrementEta(estimatedTime)
    /\ UNCHANGED <<mounted, locationState, status, intervalArmed, timerArmed, toasts,
                   navCalls, mapboxToken, tokenInput, mapError, isMapReady,
                   effectPending, hasCleanup, mapRef, userMarker, supporterMarker>>

ArrivalTimerFire_Rearms ==
    /\ timerArmed
    /\ ~effectPending
    /\ status' = "arrived"
    /\ Toast("Supporter Arrived!")
    /\ UNCHANGED <<mounted, locationState, supporterLocation, estimatedTime,
                   intervalArmed, timerArmed, navCalls, mapVars>>
\* The setTimeout callback of lines 31-37: one shot.
ArrivalTimerFire ==
    /\ timerArmed
    /\ ~effectPending
    /\ timerArmed' = FALSE
    /\ status' = "arrived"
    /\ Toast("Supporter Arrived!")
    /\ UNCHANGED <<mounted, locationState, supporterLocation, estimatedTime,
                   intervalArmed, navCalls, mapVars>>

CompleteOffered_NotCompleted == status # "completed"
\* The complete-session button is rendered inside {status === "arrived" && ...}
CompleteOffered == status = "arrived"

\* The message and call buttons are rendered in the on_way and arrived branches.
ContactOffered == status \in {"on_way", "arrived"}

RatingPayload_DropsMode ==
    [supporterId |-> locationState.supporterId, mode |-> "undefined"]
\* { state: { supporterId, mode } }, line 47
RatingPayload ==
    [supporterId |-> locationState.supporterId, mode |-> locationState.mode]

\* handleCompleteSession, lines 45-48
HandleCompleteSession ==
    /\ mounted
    /\ ~effectPending
    /\ CompleteOffered
    /\ status' = "completed"
    /\ navCalls' = Append(navCalls,
          [to |-> "/rating", state |-> <<RatingPayload>>])
    /\ UNCHANGED <<mounted, locationState, supporterLocation, estimatedTime,
                   intervalArmed, timerArmed, toasts, mapVars>>

\* handleCallSupporter, lines 50-55
HandleCallSupporter ==
    /\ mounted
    /\ ~effectPending
    /\ ContactOffered
    /\ toasts["Calling Supporter"] < MaxToasts
    /\ Toast("Calling Supporter")
    /\ UNCHANGED <<mounted, locationState, supporterLocation, estimatedTime, status,
                   intervalArmed, timerArmed, navCalls, mapVars>>

\* handleMessageSupporter, lines 57-62
HandleMessageSupporter ==
    /\ mounted
    /\ ~effectPending
    /\ ContactOffered
    /\ toasts["Message Sent"] < MaxToasts
    /\ Toast("Message Sent")
    /\ UNCHANGED <<mounted, locationState, supporterLocation, estimatedTime, status,
                   intervalArmed, timerArmed, navCalls, mapVars>>

BackCalls == Cardinality({i \in 1..Len(navCalls) : navCalls[i].to = "/home"})

\* The back button, line 71
HandleBack ==
    /\ mounted
    /\ ~effectPending
    /\ BackCalls < MaxBack
    /\ navCalls' = Append(navCalls, [to |-> "/home", state |-> << >>])
    /\ UNCHANGED <<mounted, locationState, supporterLocation, estimatedTime, status,
                   intervalArmed, timerArmed, toasts, mapVars>>

Unmount_LeavesTimer ==
    /\ mounted
    /\ ~effectPending
    /\ mounted' = FALSE
    /\ intervalArmed' = FALSE
    /\ markers' = IF hasCleanup THEN CleanupMarkers(markers) ELSE markers
    /\ maps' = IF hasCleanup THEN CleanupMaps(maps) ELSE maps
    /\ hasCleanup' = FALSE
    /\ UNCHANGED <<locationState, supporterLocation, estimatedTime, status, timerArmed,
                   toasts, navCalls, mapboxToken, tokenInput, mapError, isMapReady,
                   effectPending, mapRef, userMarker, supporterMarker>>
\* The screen leaves the tree (a route change after navigate(), or any other
\* reason): the cleanup of lines 39-42 runs, and the widget's cleanup with it.
Unmount ==
    /\ mounted
    /\ ~effectPending
    /\ mounted' = FALSE
    /\ intervalArmed' = FALSE
    /\ timerArmed' = FALSE
    /\ markers' = IF hasCleanup THEN CleanupMarkers(markers) ELSE markers
    /\ maps' = IF hasCleanup THEN CleanupMaps(maps) ELSE maps
    /\ hasCleanup' = FALSE
    /\ UNCHANGED <<locationState, supporterLocation, estimatedTime, status,
                   toasts, navCalls, mapboxToken, tokenInput, mapError, isMapReady,
                   effectPending, mapRef, userMarker, supporterMarker>>

---------------------------------------------------------------------------
\* Map.tsx

\* The input's onChange, line 155 (the prompt is rendered only without a token).
SetTokenInput(s) ==
    /\ mounted
    /\ ~effectPending
    /\ PromptRendered
    /\ s # tokenInput
    /\ tokenInput' = s
    /\ UNCHANGED <<screenVars, mapboxToken, mapError, isMapReady, effectPending,
                   hasCleanup, maps, mapRef, markers, userMarker, supporterMarker>>

\* The Load Map button is disabled={!tokenInput.trim()}, line 161.
LoadMapEnabled == Trim(tokenInput) # << >>

\* handleTokenSubmit, lines 129-134, on a click of the Load Map button.  The
\* token is a dependency of the initialisation effect, which is left pending.
HandleTokenSubmit ==
    /\ mounted
    /\ ~effectPending
    /\ PromptRendered
    /\ LoadMapEnabled
    /\ Len(maps) < MaxMaps
    /\ IF Trim(tokenInput) # << >>
       THEN /\ mapboxToken' = Trim(tokenInput)
            /\ mapError' = ""
            /\ effectPending' = (mapboxToken' # mapboxToken)
       ELSE UNCHANGED <<mapboxToken, mapError, effectPending>>
    /\ UNCHANGED <<screenVars, tokenInput, isMapReady, hasCleanup, maps, mapRef,
                   markers, userMarker, supporterMarker>>

HandleTryAgain_KeepsToken ==
    /\ mounted
    /\ ~effectPending
    /\ ErrorRendered
    /\ mapError' = ""
    /\ UNCHANGED <<screenVars, mapboxToken, effectPending, tokenInput, isMapReady,
                   hasCleanup, maps, mapRef, markers, userMarker, supporterMarker>>
\* The Try Again button of the error card, lines 185-188.
HandleTryAgain ==
    /\ mounted
    /\ ~effectPending
    /\ ErrorRendered
    /\ mapboxToken' = << >>
    /\ mapError' = ""
    /\ effectPending' = TRUE
    /\ UNCHANGED <<screenVars, tokenInput, isMapReady, hasCleanup, maps, mapRef,
                   markers, userMarker, supporterMarker>>

\* new mapboxgl.Map({...}), constructed under accessToken = mapboxToken; the
\* load handlers close over the supporterLocation of the render the effect
\* belongs to.
NewMap ==
    [loaded |-> FALSE, removed |-> FALSE,
     closure |-> <<supporterLocation>>, bounds |-> EmptyBounds]

\* The initialisation effect, lines 27-78, after a render in which the token
\* changed: the previous run's cleanup, then the body.  The constructor either
\* returns a surface or throws into the catch of line 67.
RunInitEffect ==
    /\ effectPending
    /\ effectPending' = FALSE
    /\ LET mk == IF hasCleanup THEN CleanupMarkers(markers) ELSE markers
           mp == IF hasCleanup THEN CleanupMaps(maps) ELSE maps
       IN
       /\ markers' = mk
       /\ IF mapboxToken = << >> \/ ~ContainerRendered
          THEN /\ hasCleanup' = FALSE
               /\ maps' = mp
               /\ UNCHANGED <<mapRef, mapError>>
          ELSE /\ hasCleanup' = TRUE
               /\ \/ /\ maps' = Append(mp, NewMap)
                     /\ mapRef' = Len(mp) + 1
                     /\ UNCHANGED mapError
                  \/ /\ maps' = mp
                     /\ mapError' = InitFailed
                     /\ UNCHANGED mapRef
    /\ UNCHANGED <<screenVars, mapboxToken, tokenInput, isMapReady,
                   userMarker, supporterMarker>>

\* A surface fires events while it is not removed, and load once.
Live(m) == m \in 1..Len(maps) /\ ~maps[m].removed

\* addMarkers, lines 87-109, called by the load handler of surface m: both
\* markers are attached to map.current, the supporter's at the closed-over
\* location.
AddMarkers(mk, m) ==
    IF mapRef = 0 THEN mk
    ELSE mk \o <<[kind |-> "user", map |-> mapRef, removed |-> FALSE,
                  lnglat |-> <<userLocation>>],
                 [kind |-> "supporter", map |-> mapRef, removed |-> FALSE,
                  lnglat |-> maps[m].closure]>>

\* The two load handlers of lines 51-54 and 63-65, then the location effect when
\* isMapReady changed.
MapLoadEvent ==
    /\ ~effectPending
    /\ \E m \in 1..Len(maps) :
         /\ Live(m)
         /\ ~maps[m].loaded
         /\ LET mk == AddMarkers(markers, m)
                uRef == IF mapRef = 0 THEN userMarker ELSE Len(markers) + 1
                sRef == IF mapRef = 0 THEN supporterMarker ELSE Len(markers) + 2
                mp == [maps EXCEPT ![m].loaded = TRUE, ![m].closure = << >>]
                changed == ~isMapReady
            IN
            /\ isMapReady' = TRUE
            /\ userMarker' = uRef
            /\ supporterMarker' = sRef
            /\ markers' = IF changed
                          THEN EffectMarkers(mounted /\ isMapReady', mapRef, mk, uRef, sRef,
                                             supporterLocation)
                          ELSE mk
            /\ maps' = IF changed
                       THEN EffectMaps(mounted /\ isMapReady', mapRef, mp, supporterLocation)
                       ELSE mp
    /\ UNCHANGED <<screenVars, mapboxToken, tokenInput, mapError, effectPending,
                   hasCleanup, mapRef>>

\* The error handler of lines 57-60.
MapErrorEvent ==
    /\ ~effectPending
    /\ \E m \in 1..Len(maps) : Live(m)
    /\ mapError' = LoadFailed
    /\ UNCHANGED <<screenVars, mapboxToken, tokenInput, isMapReady, effectPending,
                   hasCleanup, maps, mapRef, markers, userMarker, supporterMarker>>

---------------------------------------------------------------------------
\* Specifications

NextScreen ==
    \/ Jitter
    \/ ArrivalTimerFire
    \/ HandleCompleteSession
    \/ HandleCallSupporter
    \/ HandleMessageSupporter
    \/ HandleBack
    \/ Unmount

NextMap ==
    \/ Jitter
    \/ Unmount
    \/ \E s \in TokenInputs : SetTokenInput(s)
    \/ HandleTokenSubmit
    \/ HandleTryAgain
    \/ RunInitEffect
    \/ MapLoadEvent
    \/ MapErrorEvent

Next == NextScreen \/ NextMap

\* The whole program.
Spec == Init /\ [][Next]_vars

\* The screen while the user leaves the widget's prompt alone.  No screen action
\* reads a variable of the widget, so these are the screen's behaviours in Spec.
SpecScreen == Init /\ [][NextScreen]_vars

\* The widget and what reaches it from the screen: the supporter location set
\* by Jitter and the unmount.  No widget action reads status, toasts or navCalls.
InitMap == Init /\ locationState = [mode |-> "requester", supporterId |-> "sup-1"]
SpecMap == InitMap /\ [][NextMap]_vars

\* A pending timeout is eventually run by the event loop unless it is cleared.
FairSpecScreen == SpecScreen /\ WF_vars(ArrivalTimerFire)

---------------------------------------------------------------------------
\* Properties of the live-tracking screen

StatusMoves == {<<"on_way", "arrived">>, <<"arrived", "completed">>}

\* C1: status starts at on_way and the only changes of status that ever occur
\* are on_way -> arrived and arrived -> completed.
C1_StatusOneWay ==
    /\ status = "on_way"
    /\ [][status' # status => <<status, status'>> \in StatusMoves]_vars

C1_Witness ==
    /\ status = "completed"
    /\ toasts["Supporter Arrived!"] = 1
    /\ estimatedTime < InitialEta

RatingCalls == {i \in 1..Len(navCalls) : navCalls[i].to = "/rating"}

\* C2: a navigation to the rating target is issued only from status arrived,
\* at most once, exactly when the session is completed, and its payload is the
\* supporter id and the role received in the inbound session context.
C2_CompleteNavigatesOnce ==
    /\ [](/\ Cardinality(RatingCalls) <= 1
          /\ (status = "completed") <=> (Cardinality(RatingCalls) = 1)
          /\ \A i \in RatingCalls :
               navCalls[i].state = <<[supporterId |-> locationState.supporterId,
                                      mode |-> locationState.mode]>>)
    /\ [][Len(navCalls') > Len(navCalls) /\ navCalls'[Len(navCalls')].to = "/rating"
            => status = "arrived" /\ mounted]_vars

C2_Witness ==
    /\ ~mounted
    /\ Cardinality(RatingCalls) = 1
    /\ locationState.mode = "supporter"
    /\ locationState.supporterId = "sup-1"
    /\ Len(navCalls) = 2

\* C3: once the screen is unmounted both timers are cancelled, and no later
\* step changes the supporter location, the ETA or the status or emits a
\* notification.
C3_UnmountCancelsTimers ==
    /\ [](~mounted => ~intervalArmed /\ ~timerArmed)
    /\ [][~mounted => UNCHANGED <<supporterLocation, estimatedTime, status, toasts>>]_vars

C3_Witness ==
    /\ ~mounted
    /\ status = "on_way"
    /\ estimatedTime < InitialEta
    /\ supporterLocation # userLocation

ArrivalToasts == toasts["Supporter Arrived!"]

\* C4: the arrival notification is emitted at most once, exactly when status
\* leaves on_way; a screen unmounted while on_way stays on_way with no arrival
\* notification; and a screen that stays mounted eventually reads arrived.
C4_ArrivalOnce ==
    /\ [](/\ ArrivalToasts <= 1
          /\ (ArrivalToasts = 1) <=> (status # "on_way")
          /\ timerArmed => status = "on_way")
    /\ [][~mounted /\ status = "on_way" => status' = "on_way" /\ ArrivalToasts' = 0]_vars
    /\ (<>(~mounted) \/ <>(status = "arrived" /\ ArrivalToasts = 1))

C4_Witness ==
    /\ mounted
    /\ status = "arrived"
    /\ ArrivalToasts = 1
    /\ ~timerArmed
    /\ intervalArmed

\* C5: estimatedTime is a natural number in every state; a jitter firing sets
\* it to max(0, previous - 1) and no other step changes it.
C5_EtaFloorAndDecrement ==
    /\ [](estimatedTime \in 0..InitialEta)
    /\ [][/\ estimatedTime' <= estimatedTime
          /\ Jitter => estimatedTime' = (IF estimatedTime = 0 THEN 0 ELSE estimatedTime - 1)
          /\ ~Jitter => estimatedTime' = estimatedTime]_vars

C5_Witness ==
    /\ estimatedTime = 0
    /\ mounted
    /\ status = "on_way"

\* C6: once status is arrived or completed no step changes estimatedTime.
C6_EtaFrozenAfterArrival ==
    [][status # "on_way" => estimatedTime' = estimatedTime]_vars

---------------------------------------------------------------------------
\* Properties of the map widget

\* The surface map.current holds is constructed, not removed, and has loaded.
SurfaceLoaded == ~effectPending /\ Live(mapRef) /\ maps[mapRef].loaded

\* Both markers the refs hold are attached to the surface map.current holds.
MarkersAttached ==
    /\ userMarker # 0
    /\ supporterMarker # 0
    /\ markers[userMarker] = [kind |-> "user", map |-> mapRef, removed |-> FALSE,
                              lnglat |-> <<userLocation>>]
    /\ markers[supporterMarker].kind = "supporter"
    /\ markers[supporterMarker].map = mapRef
    /\ ~markers[supporterMarker].removed

\* The widget's state, read off the credential, the error and the surface:
\* uninitialized (no credential), errored, ready (surface loaded, markers live),
\* initializing (credential accepted, surface under construction).
WidgetState ==
    IF mapboxToken = << >> THEN "uninitialized"
    ELSE IF mapError # "" THEN "errored"
    ELSE IF SurfaceLoaded /\ MarkersAttached THEN "ready"
    ELSE "initializing"

WidgetMoves ==
    {<<"uninitialized", "initializing">>, <<"initializing", "ready">>,
     <<"initializing", "errored">>, <<"ready", "errored">>,
     <<"errored", "uninitialized">>}

IsBlank(s) == \A i \in 1..Len(s) : s[i] \in Whitespace
IsTrimmedCredential(s) ==
    /\ s # << >>
    /\ s[1] \notin Whitespace
    /\ s[Len(s)] \notin Whitespace

\* C7: while mounted the widget's state changes only along uninitialized ->
\* initializing -> ready, initializing or ready -> errored, errored ->
\* uninitialized; a surface is constructed only under an accepted credential,
\* which is non-empty and trimmed; with a blank input the credential stays
\* empty and no surface is constructed; leaving errored clears both the
\* credential and the error.
C7_WidgetStateOrder ==
    /\ [][mounted' /\ WidgetState' # WidgetState
            => <<WidgetState, WidgetState'>> \in WidgetMoves]_vars
    /\ [](mapboxToken # << >> => IsTrimmedCredential(mapboxToken))
    /\ [][Len(maps') > Len(maps) => IsTrimmedCredential(mapboxToken)]_vars
    /\ [][PromptRendered /\ IsBlank(tokenInput) /\ ~effectPending
            => mapboxToken' = << >> /\ maps' = maps]_vars
    /\ [][mounted' /\ WidgetState = "errored" /\ WidgetState' # "errored"
            => mapboxToken' = << >> /\ mapError' = ""]_vars

C7_Witness ==
    /\ mounted
    /\ WidgetState = "uninitialized"
    /\ ~effectPending
    /\ Len(maps) = 1
    /\ maps[1].loaded
    /\ maps[1].removed
    /\ tokenInput = <<" ">>

BBox(a, b) ==
    [sw |-> [lng |-> Min(a.lng, b.lng), lat |-> Min(a.lat, b.lat)],
     ne |-> [lng |-> Max(a.lng, b.lng), lat |-> Max(a.lat, b.lat)]]

\* C8: in the ready state, a step that changes the supporter location to B'
\* constructs no surface and no marker, leaves the self marker at A on the
\* same surface, puts the supporter marker at B', and requests from the surface
\* the bounding box of A and B'.
C8_SupporterMoveInReady ==
    [][mounted /\ WidgetState = "ready" /\ supporterLocation' # supporterLocation
         => /\ Len(maps') = Len(maps)
            /\ Len(markers') = Len(markers)
            /\ <<mapRef', userMarker', supporterMarker'>>
                  = <<mapRef, userMarker, supporterMarker>>
            /\ maps'[mapRef].removed = FALSE
            /\ markers'[userMarker] = markers[userMarker]
            /\ markers'[userMarker].lnglat = <<userLocation>>
            /\ markers'[supporterMarker].lnglat = <<supporterLocation'>>
            /\ maps'[mapRef].bounds = <<BBox(userLocation, supporterLocation')>>]_vars

C8_Witness ==
    /\ mounted
    /\ WidgetState = "ready"
    /\ supporterLocation.lat > BaseLat
    /\ supporterLocation.lng < BaseLng
    /\ markers[supporterMarker].lnglat = <<supporterLocation>>
    /\ markers[userMarker].lnglat = <<userLocation>>
    /\ maps[mapRef].bounds = <<BBox(userLocation, supporterLocation)>>
    /\ Len(maps) = 2
    /\ maps[1].loaded

\* The widget holds no surface: it is unmounted, or it shows the prompt and the
\* initialisation effect has run.
SurfaceReleased == ~mounted \/ (PromptRendered /\ ~effectPending)

\* C9: a surface or marker that is not removed belongs to the surface
\* map.current holds, and there is none at all once the widget is unmounted or
\* has been reset.
C9_NothingLeaks ==
    /\ \A m \in 1..Len(maps) :
         (m # mapRef \/ SurfaceReleased) => maps[m].removed
    /\ \A k \in 1..Len(markers) :
         (markers[k].map # mapRef \/ SurfaceReleased) => markers[k].removed

C9_Witness ==
    /\ ~mounted
    /\ Len(maps) = 2
    /\ Len(markers) = 4
    /\ mapError # ""
    /\ \A m \in 1..Len(maps) : maps[m].removed
    /\ \A k \in 1..Len(markers) : markers[k].removed

\* C10: while the widget shows the map as ready (container rendered, isMapReady
\* true, initialisation effect run), the surface it holds has loaded and both
\* markers are attached to it.
C10_ReadyFlagMeansLoaded ==
    mounted /\ ContainerRendered /\ ~effectPending /\ isMapReady
        => SurfaceLoaded /\ MarkersAttached

=============================================================================
